---- MODULE Spec2Model ----
(***************************************************************************)
(* Playback scheduler of the image slideshow (class ImageSlideshow of      *)
(* slideshow_gui.py) together with the Tk timer queue it arms and cancels. *)
(* Every handler of the class is an operator from a session record to a    *)
(* session record, translated statement by statement; the actions apply    *)
(* one handler per event.                                                  *)
(***************************************************************************)
EXTENDS Integers, Sequences, FiniteSets, TLC

\* ---------------------------------------------------------------- bounds
MaxEntries == 3      \* longest entry list a session is started with
MaxSeconds == 2      \* largest interval, in seconds, the launcher holds
MaxTimers == 3       \* Tk timers that may be queued at once before arming blocks
MaxFiles == 3        \* names one directory listing holds when the folder is a lone leaf
MaxCap == 2          \* largest one-digit number a lone leaf folder's name carries

\* ------------------------------------------------------ program constants
None == 0            \* after_id = None: no timer handle is held
BottomMargin == 50   \* height of the strip at the window's bottom that shows the panel
PanelGap == 10       \* distance the panel keeps from the window's bottom edge
NoIndex == -1        \* "no entry": nothing rendered yet

VARIABLES
    window,                 \* "none" | "open" | "destroyed": the session's Toplevel
    image_ok,               \* image_paths, each entry abstracted to "it decodes"
    current_image_index,
    is_running,
    paused,
    is_looping,
    interval,               \* self.interval, milliseconds
    interval_seconds,       \* self.interval_seconds (IntVar)
    after_id,               \* self.after_id: None or a Tk timer id
    pending,                \* Tk's queue of armed timers: records [id, ms]
    tk_last_id,             \* the id Tk issued last (Tk never issues it again)
    label_image,            \* index of the entry self.label shows, NoIndex if none
    settings,               \* the dict shared with the launcher
    app_interval,           \* SlideshowApp.interval (IntVar), seconds
    render_req,             \* entry rendered by the last event, NoIndex if none
    reads,                  \* indices the last event used to read image_paths
    last_op,                \* the last event: [op, arg], arg the parsed input
    log,                    \* entries requested by the display steps since Start
    only_advance,           \* every event so far was Start, a tick or show_next
    disc,                   \* a discovery run: file tree, options, image_paths
    panel,                  \* the operation panel: flag, Tk state, pointer, geometry
    user_idle,              \* the user has stopped giving input: only timers fire
    second_session          \* a session started while the first one exists

vars == <<window, image_ok, current_image_index, is_running, paused, is_looping,
          interval, interval_seconds, after_id, pending, tk_last_id, label_image,
          settings, app_interval, render_req, reads, last_op, log, only_advance, disc,
          panel, user_idle, second_session>>

MaxLog == MaxEntries + 2

\* ------------------------------------------------------------- the session
\* The session object as a record; render_req, reads and stopped_now are what
\* the handler being run has rendered, read and torn down so far.
Self ==
    [window |-> window, image_ok |-> image_ok,
     current_image_index |-> current_image_index, is_running |-> is_running,
     paused |-> paused, is_looping |-> is_looping, interval |-> interval,
     interval_seconds |-> interval_seconds, after_id |-> after_id,
     pending |-> pending, tk_last_id |-> tk_last_id, label_image |-> label_image, settings |-> settings,
     render_req |-> NoIndex, reads |-> {}, stopped_now |-> FALSE]

\* Tk: root.after_cancel(id) removes the timer with that id, if still queued.
after_cancel(s, id) ==
    [s EXCEPT !.pending = {t \in @ : t.id # id}]

\* Tk: root.after(ms, show_image) queues a timer under a fresh id. Ids are
\* kept apart only from those still referred to: the queued ones, the handle
\* held and the id issued last.
root_after(s, ms) ==
    LET used == {t.id : t \in s.pending} \cup {s.after_id, s.tk_last_id, None}
        id == CHOOSE i \in 1..(Cardinality(used) + 1) : i \notin used
    IN [s EXCEPT !.pending = @ \cup {[id |-> id, ms |-> ms]},
                 !.tk_last_id = id, !.after_id = id]

\* Variant: arms without cancelling the handle already held.
schedule_no_cancel(s) ==
    IF s.is_running /\ ~s.paused THEN root_after(s, s.interval) ELSE s

schedule_show_image(s) ==
    LET c == IF s.after_id # None
             THEN [after_cancel(s, s.after_id) EXCEPT !.after_id = None]
             ELSE s
    IN IF c.is_running /\ ~c.paused THEN root_after(c, c.interval) ELSE c

exit_slideshow(s) ==
    LET a == [s EXCEPT !.is_running = FALSE]
        c == IF a.after_id # None
             THEN [after_cancel(a, a.after_id) EXCEPT !.after_id = None]
             ELSE a
    IN [c EXCEPT !.window = "destroyed", !.stopped_now = TRUE]

\* Python list indexing: 0..len-1, negative indices count from the end,
\* anything else raises IndexError.
IndexOk(seq, i) == -Len(seq) <= i /\ i < Len(seq)
ListGet(seq, i) == IF i >= 0 THEN seq[i + 1] ELSE seq[Len(seq) + i + 1]
ListPos(seq, i) == IF i >= 0 THEN i ELSE Len(seq) + i

\* Variant: the end-of-list test is off by one (> for >=).
show_image_end_gt(s) ==
    IF ~s.is_running THEN s
    ELSE IF s.current_image_index > Len(s.image_ok) /\ ~s.is_looping
    THEN exit_slideshow(s)
    ELSE
      LET a == IF s.current_image_index > Len(s.image_ok)
               THEN [s EXCEPT !.current_image_index = 0] ELSE s
          r == [a EXCEPT !.reads = {a.current_image_index}]
      IN IF ~IndexOk(r.image_ok, r.current_image_index)
         THEN r
         ELSE IF ListGet(r.image_ok, r.current_image_index)
         THEN LET d == [r EXCEPT
                          !.label_image = ListPos(r.image_ok, r.current_image_index),
                          !.render_req = ListPos(r.image_ok, r.current_image_index),
                          !.current_image_index = @ + 1]
              IN IF ~d.paused THEN schedule_show_image(d) ELSE d
         ELSE schedule_show_image([r EXCEPT !.current_image_index = @ + 1])

\* Variant: a failed decode skips the entry after the failed one as well.
show_image_fail_skip_two(s) ==
    IF ~s.is_running THEN s
    ELSE IF s.current_image_index >= Len(s.image_ok) /\ ~s.is_looping
    THEN exit_slideshow(s)
    ELSE
      LET a == IF s.current_image_index >= Len(s.image_ok)
               THEN [s EXCEPT !.current_image_index = 0] ELSE s
          r == [a EXCEPT !.reads = {a.current_image_index}]
      IN IF ~IndexOk(r.image_ok, r.current_image_index)
         THEN r
         ELSE IF ListGet(r.image_ok, r.current_image_index)
         THEN LET d == [r EXCEPT
                          !.label_image = ListPos(r.image_ok, r.current_image_index),
                          !.render_req = ListPos(r.image_ok, r.current_image_index),
                          !.current_image_index = @ + 1]
              IN IF ~d.paused THEN schedule_show_image(d) ELSE d
         ELSE schedule_show_image([r EXCEPT !.current_image_index = @ + 2])

\* Variant: a failed decode skips the entry but does not schedule the retry.
show_image_fail_no_schedule(s) ==
    IF ~s.is_running THEN s
    ELSE IF s.current_image_index >= Len(s.image_ok) /\ ~s.is_looping
    THEN exit_slideshow(s)
    ELSE
      LET a == IF s.current_image_index >= Len(s.image_ok)
               THEN [s EXCEPT !.current_image_index = 0] ELSE s
          r == [a EXCEPT !.reads = {a.current_image_index}]
      IN IF ~IndexOk(r.image_ok, r.current_image_index)
         THEN r
         ELSE IF ListGet(r.image_ok, r.current_image_index)
         THEN LET d == [r EXCEPT
                          !.label_image = ListPos(r.image_ok, r.current_image_index),
                          !.render_req = ListPos(r.image_ok, r.current_image_index),
                          !.current_image_index = @ + 1]
              IN IF ~d.paused THEN schedule_show_image(d) ELSE d
         ELSE [r EXCEPT !.current_image_index = @ + 1]

\* Variant: a failed decode arms the retry without cancelling the held timer.
show_image_fail_no_cancel(s) ==
    IF ~s.is_running THEN s
    ELSE IF s.current_image_index >= Len(s.image_ok) /\ ~s.is_looping
    THEN exit_slideshow(s)
    ELSE
      LET a == IF s.current_image_index >= Len(s.image_ok)
               THEN [s EXCEPT !.current_image_index = 0] ELSE s
          r == [a EXCEPT !.reads = {a.current_image_index}]
      IN IF ~IndexOk(r.image_ok, r.current_image_index)
         THEN r
         ELSE IF ListGet(r.image_ok, r.current_image_index)
         THEN LET d == [r EXCEPT
                          !.label_image = ListPos(r.image_ok, r.current_image_index),
                          !.render_req = ListPos(r.image_ok, r.current_image_index),
                          !.current_image_index = @ + 1]
              IN IF ~d.paused THEN schedule_show_image(d) ELSE d
         ELSE LET f == [r EXCEPT !.current_image_index = @ + 1]
              IN IF f.is_running /\ ~f.paused THEN root_after(f, f.interval) ELSE f

\* Variant: a failed decode re-arms the timer without moving past the entry.
show_image_fail_no_advance(s) ==
    IF ~s.is_running THEN s
    ELSE IF s.current_image_index >= Len(s.image_ok) /\ ~s.is_looping
    THEN exit_slideshow(s)
    ELSE
      LET a == IF s.current_image_index >= Len(s.image_ok)
               THEN [s EXCEPT !.current_image_index = 0] ELSE s
          r == [a EXCEPT !.reads = {a.current_image_index}]
      IN IF ~IndexOk(r.image_ok, r.current_image_index)
         THEN r
         ELSE IF ListGet(r.image_ok, r.current_image_index)
         THEN LET d == [r EXCEPT
                          !.label_image = ListPos(r.image_ok, r.current_image_index),
                          !.render_req = ListPos(r.image_ok, r.current_image_index),
                          !.current_image_index = @ + 1]
              IN IF ~d.paused THEN schedule_show_image(d) ELSE d
         ELSE schedule_show_image(r)

show_image(s) ==
    IF ~s.is_running THEN s
    ELSE IF s.current_image_index >= Len(s.image_ok) /\ ~s.is_looping
    THEN exit_slideshow(s)
    ELSE
      LET a == IF s.current_image_index >= Len(s.image_ok)
               THEN [s EXCEPT !.current_image_index = 0] ELSE s
          r == [a EXCEPT !.reads = {a.current_image_index}]
      IN IF ~IndexOk(r.image_ok, r.current_image_index)
         THEN r                                   \* IndexError leaves the handler
         ELSE IF ListGet(r.image_ok, r.current_image_index)
         THEN LET d == [r EXCEPT
                          !.label_image = ListPos(r.image_ok, r.current_image_index),
                          !.render_req = ListPos(r.image_ok, r.current_image_index),
                          !.current_image_index = @ + 1]
              IN IF ~d.paused THEN schedule_show_image(d) ELSE d
         ELSE schedule_show_image([r EXCEPT !.current_image_index = @ + 1])

\* Variant: toggling the loop flag restarts the timer.
toggle_loop_rearms(s) ==
    LET a == [s EXCEPT !.is_looping = ~@]
    IN schedule_show_image([a EXCEPT !.settings.is_looping = a.is_looping])

toggle_loop(s) ==
    LET a == [s EXCEPT !.is_looping = ~@]
    IN [a EXCEPT !.settings.is_looping = a.is_looping]

\* Variant: resuming displays the next entry at once instead of arming.
toggle_pause_resume_shows(s) ==
    IF s.paused
    THEN LET a == [s EXCEPT !.paused = FALSE]
         IN IF a.window # "open" THEN a ELSE show_image(a)
    ELSE LET a == [s EXCEPT !.paused = TRUE]
         IN IF a.window # "open" THEN a
            ELSE IF a.after_id # None
            THEN [after_cancel(a, a.after_id) EXCEPT !.after_id = None]
            ELSE a

\* Variant: pausing leaves the armed timer in the queue.
toggle_pause_no_cancel(s) ==
    IF s.paused
    THEN LET a == [s EXCEPT !.paused = FALSE]
         IN IF a.window # "open" THEN a ELSE schedule_show_image(a)
    ELSE [s EXCEPT !.paused = TRUE]

\* A widget of a destroyed window raises TclError on config(): the handler
\* ends at that statement.
toggle_pause(s) ==
    IF s.paused
    THEN LET a == [s EXCEPT !.paused = FALSE]
         IN IF a.window # "open" THEN a ELSE schedule_show_image(a)
    ELSE LET a == [s EXCEPT !.paused = TRUE]
         IN IF a.window # "open" THEN a
            ELSE IF a.after_id # None
            THEN [after_cancel(a, a.after_id) EXCEPT !.after_id = None]
            ELSE a

\* Variant: steps back by one, which re-displays the entry being shown.
show_previous_back_one(s) ==
    IF s.current_image_index > 0
    THEN LET a == [s EXCEPT !.current_image_index = @ - 1]
             b == IF a.current_image_index < 0
                  THEN [a EXCEPT !.current_image_index = 0] ELSE a
         IN show_image(b)
    ELSE s

\* Variant: stepping back past the first entry wraps to the last one.
show_previous_wraps(s) ==
    IF s.current_image_index > 0
    THEN LET a == [s EXCEPT !.current_image_index = @ - 2]
             b == IF a.current_image_index < 0
                  THEN [a EXCEPT !.current_image_index = Len(a.image_ok) - 1]
                  ELSE a
         IN show_image(b)
    ELSE s

\* Variant: steps back by two without clamping at zero.
show_previous_no_clamp(s) ==
    IF s.current_image_index > 0
    THEN show_image([s EXCEPT !.current_image_index = @ - 2])
    ELSE s

show_previous(s) ==
    IF s.current_image_index > 0
    THEN LET a == [s EXCEPT !.current_image_index = @ - 2]
             b == IF a.current_image_index < 0
                  THEN [a EXCEPT !.current_image_index = 0] ELSE a
         IN show_image(b)
    ELSE s

show_next(s) == show_image(s)

\* The value handed to update_interval: text that float() rejects, "nan",
\* "inf", or a decimal numeral given in tenths.
IntervalInputs ==
    {[kind |-> "text", tenths |-> 0], [kind |-> "nan", tenths |-> 0],
     [kind |-> "inf", tenths |-> 0]}
    \cup {[kind |-> "num", tenths |-> t] : t \in {-10, -5, 0, 5, 10, 15, 20}}

\* int(float(value)): truncation toward zero; ok = FALSE when it raises.
IntOfFloat(v) ==
    IF v.kind # "num" THEN [ok |-> FALSE, val |-> 0]
    ELSE [ok |-> TRUE,
          val |-> IF v.tenths >= 0 THEN v.tenths \div 10 ELSE -((-v.tenths) \div 10)]

\* Variant: the test for a positive value lets zero through.
update_interval_accepts_zero(s, value) ==
    LET p == IntOfFloat(value)
    IN IF ~p.ok THEN s
       ELSE IF p.val >= 0
       THEN LET a == [s EXCEPT !.interval_seconds = p.val, !.interval = p.val * 1000]
            IN IF a.window # "open" THEN a
               ELSE LET b == [a EXCEPT !.settings.interval_seconds = p.val]
                    IN IF ~b.paused THEN schedule_show_image(b) ELSE b
       ELSE s

\* Variant: the timer is re-armed whether or not the value was accepted.
update_interval_always_rearms(s, value) ==
    LET p == IntOfFloat(value)
        a == IF p.ok /\ p.val > 0
             THEN [s EXCEPT !.interval_seconds = p.val, !.interval = p.val * 1000,
                            !.settings.interval_seconds = p.val]
             ELSE s
    IN IF a.window # "open" THEN a
       ELSE IF ~a.paused THEN schedule_show_image(a) ELSE a

\* Variant: the new interval is stored but the running timer is left as armed.
update_interval_no_rearm(s, value) ==
    LET p == IntOfFloat(value)
    IN IF ~p.ok THEN s
       ELSE IF p.val > 0
       THEN LET a == [s EXCEPT !.interval_seconds = p.val, !.interval = p.val * 1000]
            IN IF a.window # "open" THEN a
               ELSE [a EXCEPT !.settings.interval_seconds = p.val]
       ELSE s

update_interval(s, value) ==
    LET p == IntOfFloat(value)
    IN IF ~p.ok THEN s
       ELSE IF p.val > 0
       THEN LET a == [s EXCEPT !.interval_seconds = p.val, !.interval = p.val * 1000]
            IN IF a.window # "open" THEN a
               ELSE LET b == [a EXCEPT !.settings.interval_seconds = p.val]
                    IN IF ~b.paused THEN schedule_show_image(b) ELSE b
       ELSE s

\* The fields __init__ sets before it looks at the collected image list.
init_fields(s, entries, ms) ==
    [s EXCEPT !.interval_seconds = ms \div 1000,
              !.interval = (ms \div 1000) * 1000,
              !.image_ok = entries,
              !.current_image_index = 0,
              !.is_running = TRUE,
              !.paused = FALSE,
              !.is_looping = s.settings.is_looping,
              !.after_id = None,
              !.window = "open"]

\* Variant: the empty image list is not turned away.
init_session_no_empty_check(s, entries, ms) ==
    show_image(init_fields(s, entries, ms))

\* ImageSlideshow.__init__: with no image collected the window is destroyed
\* and the constructor returns before the panel, the first show_image and the
\* bindings.
init_session(s, entries, ms) ==
    LET a == init_fields(s, entries, ms)
    IN IF a.image_ok = <<>> THEN [a EXCEPT !.window = "destroyed"]
       ELSE show_image(a)

\* ------------------------------------------------------------ the actions
EntryLists == UNION {[1..n -> BOOLEAN] : n \in 0..MaxEntries}

\* h is the session as the handler left it; it is computed once.
Commit(h, op, arg, display) ==
  \E t \in {h} :
    /\ window' = t.window
    /\ image_ok' = t.image_ok
    /\ current_image_index' = t.current_image_index
    /\ is_running' = t.is_running
    /\ paused' = t.paused
    /\ is_looping' = t.is_looping
    /\ interval' = t.interval
    /\ interval_seconds' = t.interval_seconds
    /\ after_id' = t.after_id
    /\ pending' = t.pending
    /\ tk_last_id' = t.tk_last_id
    /\ label_image' = t.label_image
    /\ settings' = t.settings
    /\ render_req' = t.render_req
    /\ reads' = t.reads
    /\ last_op' = [op |-> op, arg |-> arg]
    /\ UNCHANGED <<app_interval, disc, panel, user_idle, second_session>>
    /\ only_advance' = (only_advance /\ op \in {"start", "tick", "show_next"})
    /\ log' = IF ~only_advance' THEN <<>>
              ELSE IF display /\ Len(log) < MaxLog
              THEN Append(log, [idx |-> t.render_req, stop |-> t.stopped_now,
                                loop |-> t.is_looping])
              ELSE log

NoArg == [ok |-> FALSE, val |-> 0]

PlaybackInit ==
    /\ window = "none"
    /\ image_ok = <<>>
    /\ current_image_index = 0
    /\ is_running = FALSE
    /\ paused = FALSE
    /\ is_looping = FALSE
    /\ interval = 0
    /\ interval_seconds = 0
    /\ after_id = None
    /\ pending = {}
    /\ tk_last_id = None
    /\ label_image = NoIndex
    /\ settings \in [is_looping : BOOLEAN, interval_seconds : 0..MaxSeconds]
    /\ app_interval = settings.interval_seconds
    /\ render_req = NoIndex
    /\ reads = {}
    /\ last_op = [op |-> "none", arg |-> NoArg]
    /\ log = <<>>
    /\ only_advance = TRUE
    /\ user_idle = FALSE
    /\ second_session = [window |-> "none", is_looping |-> FALSE, interval |-> 0]

\* No discovery run is being followed.
NoDisc ==
    [fs |-> <<>>, app |-> <<>>, opts |-> <<>>, folder_paths |-> <<>>, next |-> 1,
     image_paths |-> <<>>, raised |-> FALSE]

\* The operation panel is not being followed.
NoPanel == [operation_panel_visible |-> FALSE]

Init == PlaybackInit /\ disc = NoDisc /\ panel = NoPanel

Started == window # "none"
\* The handlers are reachable once __init__ has built the panel and installed
\* the bindings, which it does only for a non-empty image list.
Bound == Started /\ image_ok # <<>>
TimerRoom == Cardinality(pending) < MaxTimers

Start ==
    /\ window = "none"
    /\ app_interval > 0
    /\ \E entries \in EntryLists :
         Commit(init_session(Self, entries, app_interval * 1000), "start", NoArg,
                entries # <<>>)

Tick ==
    /\ TimerRoom
    /\ \E t \in pending :
         Commit(show_image([Self EXCEPT !.pending = @ \ {t}]), "tick", NoArg, is_running)

Advance ==
    /\ Bound /\ TimerRoom
    /\ Commit(show_next(Self), "show_next", NoArg, is_running)

Retreat ==
    /\ Bound /\ TimerRoom
    /\ Commit(show_previous(Self), "show_previous", NoArg, FALSE)

TogglePause ==
    /\ Bound /\ TimerRoom
    /\ Commit(toggle_pause(Self), "toggle_pause", NoArg, FALSE)

SetInterval ==
    /\ Bound /\ TimerRoom
    /\ \E v \in IntervalInputs :
         Commit(update_interval(Self, v), "update_interval", IntOfFloat(v), FALSE)

ToggleLoop ==
    /\ Bound
    /\ Commit(toggle_loop(Self), "toggle_loop", NoArg, FALSE)

Stop ==
    /\ Bound
    /\ Commit(exit_slideshow(Self), "exit_slideshow", NoArg, FALSE)

Next ==
    \/ Start
    \/ Tick
    \/ Advance
    \/ Retreat
    \/ TogglePause
    \/ SetInterval
    \/ ToggleLoop
    \/ Stop

Spec == Init /\ [][Next]_vars

\* ---- playback left to its timers
\* From some moment on the user gives no input: the only events are the
\* timers Tk fires, and Tk's event loop fires a queued timer once it is due.
Quiesce ==
    /\ Started /\ ~user_idle
    /\ user_idle' = TRUE
    /\ UNCHANGED <<window, image_ok, current_image_index, is_running, paused,
                   is_looping, interval, interval_seconds, after_id, pending,
                   tk_last_id, label_image, settings, app_interval, render_req,
                   reads, last_op, log, only_advance, disc, panel,
                   second_session>>

\* What the user does before falling idle.  The interval slider is left
\* alone here: the length of the interval plays no part in which entry a
\* timer displays.
UserEvent ==
    Start \/ Advance \/ Retreat \/ TogglePause \/ ToggleLoop \/ Stop

LNext ==
    \/ ~user_idle /\ UserEvent
    \/ Tick
    \/ Quiesce

SpecTimers == Init /\ [][LNext]_vars /\ WF_vars(Tick)

\* ---- the launcher beside the session
\* SlideshowApp.on_interval_change: the trace on the launcher's interval
\* field writes a positive value into the shared settings.
on_interval_change(st, new_interval) ==
    IF new_interval > 0 THEN [st EXCEPT !.interval_seconds = new_interval] ELSE st

\* The user edits the launcher's interval field; the launcher window stays
\* usable while a session is open.
EditInterval ==
    /\ \E v \in 0..MaxSeconds :
          /\ app_interval' = v
          /\ settings' = on_interval_change(settings, v)
    /\ UNCHANGED <<window, image_ok, current_image_index, is_running, paused,
                   is_looping, interval, interval_seconds, after_id, pending,
                   tk_last_id, label_image, render_req, reads, last_op, log,
                   only_advance, disc, panel, user_idle, second_session>>

\* start_slideshow pressed again while the first session exists: the new
\* session takes its interval from the launcher's field and its loop flag
\* from the shared settings.  Only these two fields of it are followed.
StartSecond ==
    /\ Started
    /\ second_session.window = "none"
    /\ app_interval > 0
    /\ second_session' = [window |-> "open",
                          is_looping |-> settings.is_looping,
                          interval |-> ((app_interval * 1000) \div 1000) * 1000]
    /\ UNCHANGED <<window, image_ok, current_image_index, is_running, paused,
                   is_looping, interval, interval_seconds, after_id, pending,
                   tk_last_id, label_image, settings, app_interval, render_req,
                   reads, last_op, log, only_advance, disc, panel, user_idle>>

\* The first session's events that touch the shared settings, its timers,
\* and the launcher's events.
SNext ==
    \/ Start
    \/ Tick
    \/ SetInterval
    \/ ToggleLoop
    \/ Stop
    \/ EditInterval
    \/ StartSecond

SpecLauncher == Init /\ [][SNext]_vars

\* -------------------------------------------------------------- discovery
\* Folder discovery (collect_images_from_folders and collect_images_dfs) over
\* a small file tree.  A name is cut the way re.split(r'(\d+)') cuts it: the
\* text before the digits, the digits as written, the text after them.
Name(stem, digits, ext) == [stem |-> stem, digits |-> digits, ext |-> ext]

\* str.lower() on the texts the trees use.
Lower(t) ==
    CASE t = "A" -> "a"
      [] t = ".PNG" -> ".png"
      [] OTHER -> t

\* Python's order of str on the lowered texts, as a rank.
TextRank(t) ==
    CASE t = "" -> 0
      [] t = ".jpg" -> 1
      [] t = ".png" -> 2
      [] t = ".txt" -> 3
      [] t = "a" -> 4
      [] t = "b" -> 5
      [] t = "misc" -> 6
      [] t = "set" -> 7
      [] t = "vol" -> 8

\* int() of a run of decimal digits.
RECURSIVE IntOfDigits(_)
IntOfDigits(ds) ==
    IF ds = <<>> THEN 0
    ELSE 10 * IntOfDigits(SubSeq(ds, 1, Len(ds) - 1)) + ds[Len(ds)]

\* natural_keys(text): the lowered texts and the digits as an integer.
natural_keys(n) == <<TextRank(Lower(n.stem)), IntOfDigits(n.digits), TextRank(Lower(n.ext))>>

\* Python's list comparison of two keys.
KeyLess(a, b) ==
    \/ a[1] < b[1]
    \/ a[1] = b[1] /\ a[2] < b[2]
    \/ a[1] = b[1] /\ a[2] = b[2] /\ a[3] < b[3]

\* sorted(seq, key=...), key a function on the elements: stable, an element
\* goes after the ones whose key is not greater.
RECURSIVE InsertByKey(_, _, _)
InsertByKey(x, seq, key) ==
    IF seq = <<>> THEN <<x>>
    ELSE IF KeyLess(key[x], key[Head(seq)]) THEN <<x>> \o seq
    ELSE <<Head(seq)>> \o InsertByKey(x, Tail(seq), key)

RECURSIVE sorted(_, _)
sorted(seq, key) ==
    IF seq = <<>> THEN <<>>
    ELSE InsertByKey(seq[Len(seq)], sorted(SubSeq(seq, 1, Len(seq) - 1), key), key)

Range(seq) == {seq[i] : i \in 1..Len(seq)}

supported_extensions == {".png", ".jpg", ".jpeg", ".gif", ".bmp", ".tiff"}

is_image_file(f) == Lower(f.ext) \in supported_extensions

\* seq[1:] and seq[:limit] of Python, limit >= 0.
DropFirst(seq) == IF seq = <<>> THEN <<>> ELSE Tail(seq)
TakeFirst(seq, limit) == SubSeq(seq, 1, IF limit < Len(seq) THEN limit ELSE Len(seq))

\* The rule the trees are filtered with is "vol{num}": regex_pattern.search
\* finds it in a folder name whose text before the digits is "vol".
RegexMatches(n) == n.stem = "vol" /\ n.digits # <<>>

\* The options the launcher hands to the session (start_slideshow): the
\* stored policy is passed only when a rule was compiled.
session_options(app) ==
    [skip_first_image |-> app.skip_first_image,
     regex_pattern |-> app.regex_set,
     handle_unmatched |-> IF app.regex_set THEN app.handle_unmatched_regex
                          ELSE "show_all"]

leaf_images_limit_then_skip(fs, o, d) ==
    LET image_files == SelectSeq(fs[d].files, is_image_file)
        sorted_image_files ==
            sorted(image_files, [f \in Range(image_files) |-> natural_keys(f)])
        folder_name == fs[d].name
        matched == o.regex_pattern /\ RegexMatches(folder_name)
        after_limit == IF matched
                       THEN TakeFirst(sorted_image_files, IntOfDigits(folder_name.digits))
                       ELSE sorted_image_files
        after_skip == IF o.skip_first_image THEN DropFirst(after_limit) ELSE after_limit
    IN IF o.regex_pattern /\ ~matched /\ o.handle_unmatched = "skip_folder"
       THEN <<>>
       ELSE [i \in 1..Len(after_skip) |->
                [dir |-> d, file |-> after_skip[i], folder_name |-> folder_name]]

leaf_images_never_skips_folder(fs, o, d) ==
    LET image_files == SelectSeq(fs[d].files, is_image_file)
        sorted_image_files ==
            sorted(image_files, [f \in Range(image_files) |-> natural_keys(f)])
        folder_name == fs[d].name
        matched == o.regex_pattern /\ RegexMatches(folder_name)
        after_skip == IF o.skip_first_image THEN DropFirst(sorted_image_files)
                      ELSE sorted_image_files
        after_limit == IF matched
                       THEN TakeFirst(after_skip, IntOfDigits(folder_name.digits))
                       ELSE after_skip
    IN [i \in 1..Len(after_limit) |->
           [dir |-> d, file |-> after_limit[i], folder_name |-> folder_name]]

\* What a directory without subfolders appends to image_paths.
leaf_images(fs, o, d) ==
    LET image_files == SelectSeq(fs[d].files, is_image_file)
        sorted_image_files ==
            sorted(image_files, [f \in Range(image_files) |-> natural_keys(f)])
        folder_name == fs[d].name
        matched == o.regex_pattern /\ RegexMatches(folder_name)
        after_skip == IF o.skip_first_image THEN DropFirst(sorted_image_files)
                      ELSE sorted_image_files
        after_limit == IF matched
                       THEN TakeFirst(after_skip, IntOfDigits(folder_name.digits))
                       ELSE after_skip
    IN IF o.regex_pattern /\ ~matched /\ o.handle_unmatched = "skip_folder"
       THEN <<>>
       ELSE [i \in 1..Len(after_limit) |->
                [dir |-> d, file |-> after_limit[i], folder_name |-> folder_name]]

\* collect_images_dfs(current_path) on the run acc = [image_paths, raised];
\* raised: os.listdir raised an error the handler does not catch, which ends
\* the whole discovery.
RECURSIVE collect_images_dfs(_, _, _, _)
RECURSIVE collect_folders(_, _, _, _)
collect_folders(fs, o, ds, acc) ==
    IF ds = <<>> \/ acc.raised THEN acc
    ELSE collect_folders(fs, o, Tail(ds), collect_images_dfs(fs, o, Head(ds), acc))

collect_images_dfs_any_dir(fs, o, d, acc) ==
    IF fs[d].listing = "PermissionError" THEN acc
    ELSE IF fs[d].listing # "ok" THEN [acc EXCEPT !.raised = TRUE]
    ELSE LET folders == fs[d].folders
             key == [x \in Range(folders) |-> natural_keys(fs[x].name)]
             sub == collect_folders(fs, o, sorted(folders, key), acc)
         IN IF sub.raised THEN sub
            ELSE [sub EXCEPT !.image_paths = @ \o leaf_images(fs, o, d)]

collect_images_dfs(fs, o, d, acc) ==
    IF fs[d].listing = "PermissionError" THEN acc
    ELSE IF fs[d].listing # "ok" THEN [acc EXCEPT !.raised = TRUE]
    ELSE LET folders == fs[d].folders
             key == [x \in Range(folders) |-> natural_keys(fs[x].name)]
             sub == collect_folders(fs, o, sorted(folders, key), acc)
         IN IF sub.raised \/ folders # <<>> THEN sub
            ELSE [sub EXCEPT !.image_paths = @ \o leaf_images(fs, o, d)]

\* ---- the trees discovery is run on
DirName ==
    [R |-> Name("set", <<2>>, ""), S |-> Name("set", <<1, 0>>, ""),
     A |-> Name("vol", <<1, 0>>, ""), B |-> Name("vol", <<2>>, ""),
     C |-> Name("misc", <<1>>, "")]

Dirs == DOMAIN DirName

\* A sits in R, B sits in R, C sits in A, when they exist at all.
Parent == [A |-> "R", B |-> "R", C |-> "A"]

F_a10 == Name("a", <<1, 0>>, ".png")
F_a2 == Name("a", <<2>>, ".png")
F_A1 == Name("A", <<1>>, ".PNG")
F_b1 == Name("b", <<1>>, ".jpg")
F_txt == Name("a", <<3>>, ".txt")

\* os.listdir returns names in no particular order.
BaseListings ==
    {<<F_a10, F_a2, F_txt, F_A1, F_b1>>, <<F_b1, F_A1, F_a2, F_a10, F_txt>>}

Listings == {SubSeq(b, 1, n) : b \in BaseListings, n \in 0..MaxFiles}

TreeFiles == <<F_a10, F_a2>>

ListingOutcomes == {"ok", "PermissionError", "FileNotFoundError"}

AppOptions ==
    [skip_first_image : BOOLEAN, regex_set : BOOLEAN,
     handle_unmatched_regex : {"show_all", "skip_folder"}]

Absent == [name |-> Name("", <<>>, ""), listing |-> "FileNotFoundError",
           folders |-> <<>>, files |-> <<>>]

LeafNames ==
    {Name("vol", <<n>>, "") : n \in 0..MaxCap}
        \cup {Name("vol", <<1, 0>>, ""), Name("vol", <<0, 2>>, ""), Name("misc", <<3>>, "")}

\* One root that is a leaf, with every name, listing and outcome.
LeafInputs ==
    {[fs |-> [d \in Dirs |-> IF d = "R"
                              THEN [name |-> nm, listing |-> out,
                                    folders |-> <<>>, files |-> fl]
                              ELSE Absent],
      roots |-> <<"R">>, app |-> app] :
        nm \in LeafNames, fl \in Listings, out \in ListingOutcomes, app \in AppOptions}

\* Trees of up to five directories, at most one of which cannot be listed.
TreeShapes ==
    {[R |-> rf, A |-> af] :
        rf \in {<<>>, <<"A">>, <<"B">>, <<"A", "B">>, <<"B", "A">>},
        af \in {<<>>, <<"C">>}}

TreeInputs ==
    {[fs |-> [d \in Dirs |->
                [name |-> DirName[d],
                 listing |-> IF d = bad.dir THEN bad.outcome ELSE "ok",
                 folders |-> IF d \in {"R", "A"} THEN sh[d] ELSE <<>>,
                 files |-> IF d \in full THEN TreeFiles ELSE <<>>]],
      roots |-> roots, app |-> app] :
        sh \in {t \in TreeShapes : t.A # <<>> => "A" \in Range(t.R)},
        roots \in {<<"R">>, <<"R", "S">>, <<"S", "R">>},
        full \in SUBSET Dirs,
        bad \in [dir : Dirs \cup {"none"}, outcome : ListingOutcomes \ {"ok"}],
        app \in AppOptions}

DiscInputs == LeafInputs \cup TreeInputs

\* start_slideshow sorts the chosen folders and constructs the session,
\* whose constructor begins the discovery with an empty image_paths.
DInit ==
    /\ PlaybackInit
    /\ settings = [is_looping |-> TRUE, interval_seconds |-> 1]
    /\ panel = NoPanel
    /\ \E inp \in DiscInputs :
          disc = [fs |-> inp.fs, app |-> inp.app, opts |-> session_options(inp.app),
                  folder_paths |-> sorted(inp.roots,
                                          [r \in Range(inp.roots) |-> natural_keys(inp.fs[r].name)]),
                  next |-> 1, image_paths |-> <<>>, raised |-> FALSE]

\* One turn of the loop of collect_images_from_folders.
CollectNextRoot ==
    /\ ~disc.raised
    /\ disc.next <= Len(disc.folder_paths)
    /\ LET r == collect_images_dfs(disc.fs, disc.opts, disc.folder_paths[disc.next],
                                   [image_paths |-> disc.image_paths, raised |-> FALSE])
       IN disc' = [disc EXCEPT !.image_paths = r.image_paths,
                               !.raised = r.raised,
                               !.next = @ + 1]
    /\ UNCHANGED <<window, image_ok, current_image_index, is_running, paused,
                   is_looping, interval, interval_seconds, after_id, pending,
                   tk_last_id, label_image, settings, app_interval, render_req,
                   reads, last_op, log, only_advance, panel, user_idle,
                   second_session>>

DNext == CollectNextRoot

SpecDiscovery == DInit /\ [][DNext]_vars

\* ---------------------------------------------------------- operation panel
\* The panel's handlers work on p = [operation_panel_visible, state, calls]:
\* state is Tk's own state of the panel window ("withdrawn" or "normal"),
\* calls the deiconify and withdraw calls the running event has issued.
show_operation_panel_unguarded(p) ==
    [p EXCEPT !.state = "normal", !.calls = Append(@, "deiconify"),
              !.operation_panel_visible = TRUE]

show_operation_panel(p) ==
    IF ~p.operation_panel_visible
    THEN [p EXCEPT !.state = "normal", !.calls = Append(@, "deiconify"),
                   !.operation_panel_visible = TRUE]
    ELSE p

hide_operation_panel(p) ==
    IF p.operation_panel_visible
    THEN [p EXCEPT !.state = "withdrawn", !.calls = Append(@, "withdraw"),
                   !.operation_panel_visible = FALSE]
    ELSE p

\* g: the geometry the winfo_ calls return.
on_mouse_move(p, x_root, y_root, g) ==
    LET over_bottom ==
            /\ g.window_x <= x_root /\ x_root <= g.window_x + g.window_width
            /\ y_root >= g.window_y + g.window_height - BottomMargin
        over_panel ==
            /\ g.panel_x <= x_root /\ x_root <= g.panel_x + g.panel_width
            /\ g.panel_y <= y_root /\ y_root <= g.panel_y + g.panel_height
    IN IF over_bottom \/ over_panel THEN show_operation_panel(p)
       ELSE hide_operation_panel(p)

\* The panel centred at the window's bottom; // is floor division.
update_operation_panel_position(g) ==
    [g EXCEPT !.panel_x = g.window_x + ((g.window_width - g.panel_width) \div 2),
              !.panel_y = g.window_y + g.window_height - g.panel_height - PanelGap]

\* Window sizes, panel sizes and pointer positions the panel is tried on.
WindowWidths == {8, 12}
WindowHeights == {100, 120}
PanelHeights == {20, 70}
PanelWidth == 4
PointerXs == {-1, 0, 3, 7, 12, 13}
PointerYs == {0, 20, 49, 50, 70, 100, 120}

Geometry(w, h, ph) ==
    update_operation_panel_position(
        [window_x |-> 0, window_y |-> 0, window_width |-> w, window_height |-> h,
         panel_x |-> 0, panel_y |-> 0, panel_width |-> PanelWidth, panel_height |-> ph])

\* After construction the panel is placed, withdrawn, and the flag is False.
\* event, same_as_last, state_before and prev_calls record the last event
\* for the properties: what it was, whether it repeated the pointer and
\* geometry of the move before it, Tk's state when it began, and the calls
\* of the event before it.
PInit ==
    /\ PlaybackInit
    /\ settings = [is_looping |-> TRUE, interval_seconds |-> 1]
    /\ disc = NoDisc
    /\ \E w \in WindowWidths, h \in WindowHeights, ph \in PanelHeights :
          panel = [operation_panel_visible |-> FALSE, state |-> "withdrawn",
                   calls |-> <<>>, last_call |-> "withdraw",
                   geometry |-> Geometry(w, h, ph), pointer |-> <<0, 0>>,
                   event |-> "none", same_as_last |-> FALSE,
                   state_before |-> "withdrawn", prev_calls |-> <<>>]

PlaybackUnchanged ==
    UNCHANGED <<window, image_ok, current_image_index, is_running, paused,
                is_looping, interval, interval_seconds, after_id, pending,
                tk_last_id, label_image, settings, app_interval, render_req,
                reads, last_op, log, only_advance, user_idle, second_session>>

\* A <Motion> event on the window or on the panel.
MouseMove ==
    /\ \E x_root \in PointerXs, y_root \in PointerYs :
          LET p == on_mouse_move([operation_panel_visible |-> panel.operation_panel_visible,
                                  state |-> panel.state, calls |-> <<>>],
                                 x_root, y_root, panel.geometry)
          IN panel' = [panel EXCEPT
                          !.operation_panel_visible = p.operation_panel_visible,
                          !.state = p.state,
                          !.calls = p.calls,
                          !.last_call = IF p.calls = <<>> THEN @
                                        ELSE p.calls[Len(p.calls)],
                          !.pointer = <<x_root, y_root>>,
                          !.event = "move",
                          !.same_as_last = /\ panel.event = "move"
                                           /\ panel.pointer = <<x_root, y_root>>,
                          !.state_before = panel.state,
                          !.prev_calls = panel.calls]
    /\ PlaybackUnchanged
    /\ UNCHANGED disc

\* A <Configure> event: the window has a new size, the panel is re-placed.
Configure ==
    /\ \E w \in WindowWidths, h \in WindowHeights :
          panel' = [panel EXCEPT
                       !.geometry = update_operation_panel_position(
                                        [@ EXCEPT !.window_width = w,
                                                  !.window_height = h]),
                       !.calls = <<>>,
                       !.event = "configure",
                       !.same_as_last = FALSE,
                       !.state_before = panel.state,
                       !.prev_calls = panel.calls]
    /\ PlaybackUnchanged
    /\ UNCHANGED disc

PNext == MouseMove \/ Configure

SpecPanel == PInit /\ [][PNext]_vars

\* ------------------------------------------------------------- the claims
Running == is_running /\ window = "open"
RunningActive == Running /\ ~paused
RunningPaused == Running /\ paused
Stopped == window = "destroyed" /\ ~is_running

\* C1: at most one timer is pending, and the pending timer is the one whose
\* handle the session holds, so the next arming cancels it first.
C1_TimerExclusive ==
    /\ Cardinality(pending) <= 1
    /\ \A t \in pending : t.id = after_id

\* A timer armed by a Resume, after earlier timers were armed and cancelled.
C1_Witness ==
    /\ last_op.op = "toggle_pause" /\ RunningActive
    /\ Cardinality(pending) = 1 /\ current_image_index >= 2

\* C2: a timer is pending only while the session is running and not paused.
C2_TimerOnlyWhenActive ==
    pending # {} => (is_running /\ ~paused)

\* A manual Advance while paused whose entry failed to decode.
C2_Witness ==
    /\ RunningPaused /\ last_op.op = "show_next"
    /\ reads # {} /\ render_req = NoIndex /\ pending = {}

\* C3: whenever the session is running and not paused, a timer is pending.
C3_ActiveHasTimer ==
    RunningActive => pending # {}

\* A one-entry list whose only entry failed to decode on a tick.
C3_Witness ==
    /\ RunningActive /\ Len(image_ok) = 1 /\ last_op.op = "tick"
    /\ reads # {} /\ render_req = NoIndex /\ pending # {}

\* C4: in a started session 0 <= position <= len(entries), and every index
\* used to read the entry list lies in 0..len(entries)-1.
C4_PositionInRange ==
    Started =>
        /\ 0 <= current_image_index
        /\ current_image_index <= Len(image_ok)
        /\ \A i \in reads : 0 <= i /\ i < Len(image_ok)

\* A Retreat from position 1 (clamped to 0), read and rendered.
C4_Witness ==
    /\ Running /\ last_op.op = "show_previous"
    /\ reads = {0} /\ current_image_index = 1

AllDecode == \A i \in DOMAIN image_ok : image_ok[i]

\* C5: with N entries that all decode, Start followed only by ticks and manual
\* Advances renders entries 0..N-1 in order on the first N display steps; the
\* next display step stops the session without rendering when looping is
\* false, and renders entry 0 again and goes on in order when looping is true.
C5_AdvanceOrder ==
    (Started /\ only_advance /\ AllDecode) =>
        LET N == Len(image_ok) IN
        \A k \in 1..Len(log) :
            /\ k <= N => (log[k].idx = k - 1 /\ ~log[k].stop)
            /\ k > N =>
                 IF log[k].loop
                 THEN log[k].idx = (k - 1) % N /\ ~log[k].stop
                 ELSE /\ k = N + 1 /\ k = Len(log)
                      /\ log[k].stop /\ log[k].idx = NoIndex
                      /\ Stopped /\ pending = {}

\* The display step after the last entry of a looping list of two or more.
C5_Witness ==
    /\ Started /\ only_advance /\ AllDecode /\ Len(image_ok) >= 2
    /\ Len(log) = Len(image_ok) + 1
    /\ log[Len(log)].loop /\ log[Len(log)].idx = 0 /\ RunningActive

\* The index a display step taken now reads: the position, or 0 at the end
\* of the list; AtEnd with looping off is the step that stops instead.
AtEnd == current_image_index >= Len(image_ok)
DisplayIndex == IF AtEnd THEN 0 ELSE current_image_index
AdvanceOps == {"tick", "show_next"}

\* C6 as stated: when the entry read by an Advance fails to decode and the
\* next entry exists and decodes, that same Advance renders the next entry.
C6_SameAdvanceRendersNext ==
    \A i \in reads :
        (/\ last_op.op \in AdvanceOps
         /\ i + 2 <= Len(image_ok) /\ ~image_ok[i + 1] /\ image_ok[i + 2])
        => render_req = i + 1

\* C6, amended: an Advance whose entry fails to decode renders nothing and
\* keeps the shown image, moves position exactly one past the failed entry
\* and arms the timer unless paused; every Advance reads the entry at the
\* position (entry 0 at the end of a looping list, stopping at the end of a
\* non-looping one), so the entry after the failed one is rendered by the
\* next display step, not by the failed one.
C6_FailedAdvanceSkipsOne ==
    [][(last_op'.op \in AdvanceOps /\ Running) =>
         IF AtEnd /\ ~is_looping
         THEN Stopped' /\ reads' = {} /\ render_req' = NoIndex
         ELSE /\ reads' = {DisplayIndex}
              /\ current_image_index' = DisplayIndex + 1
              /\ IF image_ok[DisplayIndex + 1]
                 THEN render_req' = DisplayIndex /\ label_image' = DisplayIndex
                 ELSE /\ render_req' = NoIndex
                      /\ label_image' = label_image
                      /\ (pending' # {}) <=> ~paused
                      /\ Running']_vars

\* Entry 1 failed on the second display step and entry 2 was rendered by
\* the third.
C6_Witness ==
    /\ Running /\ only_advance /\ Len(log) = 3 /\ ~image_ok[2]
    /\ log[2].idx = NoIndex /\ log[3].idx = 2 /\ current_image_index = 3

\* C7 as stated: a Retreat taken while entry i is shown renders entry i-1.
C7_RetreatRendersBeforeLastShown ==
    [][(last_op'.op = "show_previous" /\ Running /\ label_image # NoIndex) =>
         render_req' = label_image - 1]_vars

\* The index a Retreat taken now displays: position - 2, clamped at 0.
RetreatIndex ==
    IF current_image_index - 2 < 0 THEN 0 ELSE current_image_index - 2

\* C7, amended: in a running session the position p is at least 1, and a
\* Retreat performs the display step of an Advance at index max(p-2, 0):
\* that entry is read, rendered if it decodes, and position becomes
\* max(p-2, 0) + 1; the timer is re-armed as by an Advance (one timer at the
\* current interval unless paused). The entry rendered is the one before the
\* last one shown when the last one shown is entry p-1 >= 1; at p = 1 the
\* Retreat renders entry 0 again.
C7_RetreatStepsBackTwo ==
    [][(last_op'.op = "show_previous" /\ Running) =>
         /\ current_image_index >= 1
         /\ reads' = {RetreatIndex}
         /\ current_image_index' = RetreatIndex + 1
         /\ IF image_ok[RetreatIndex + 1]
            THEN render_req' = RetreatIndex /\ label_image' = RetreatIndex
            ELSE render_req' = NoIndex /\ label_image' = label_image
         /\ (/\ label_image = current_image_index - 1 /\ label_image >= 1
             /\ image_ok[RetreatIndex + 1]) => render_req' = label_image - 1
         /\ (current_image_index = 1 /\ image_ok[1]) => render_req' = 0
         /\ Running'
         /\ (pending' # {}) <=> ~paused
         /\ \A t \in pending' : t.ms = interval /\ t.id = after_id'
         /\ Cardinality(pending') <= 1]_vars

\* A Retreat that rendered entry 1 (taken at position 3) and re-armed.
C7_Witness ==
    /\ Running /\ last_op.op = "show_previous"
    /\ render_req = 1 /\ current_image_index = 2 /\ pending # {}

PlaybackKept ==
    /\ current_image_index' = current_image_index
    /\ label_image' = label_image
    /\ render_req' = NoIndex /\ reads' = {}
    /\ image_ok' = image_ok

\* C9: from a running, unpaused session Pause cancels the pending timer and
\* keeps position and image; the Resume that follows arms exactly one timer
\* at the current interval, renders nothing and keeps position, looping and
\* the interval.
C9_PauseResumeRoundTrip ==
    [][/\ (last_op'.op = "toggle_pause" /\ RunningActive) =>
            /\ pending # {}
            /\ RunningPaused' /\ pending' = {} /\ after_id' = None
            /\ PlaybackKept
            /\ is_looping' = is_looping /\ interval' = interval
       /\ (last_op'.op = "toggle_pause" /\ RunningPaused) =>
            /\ pending = {}
            /\ RunningActive' /\ Cardinality(pending') = 1
            /\ \A t \in pending' : t.ms = interval /\ t.id = after_id'
            /\ PlaybackKept
            /\ is_looping' = is_looping /\ interval' = interval
            /\ settings' = settings]_vars

\* A Resume has re-armed the timer of a session that shows an image.
C9_Witness ==
    /\ RunningActive /\ last_op.op = "toggle_pause"
    /\ label_image # NoIndex /\ label_image = current_image_index - 1
    /\ \E t \in pending : t.ms = interval

\* The last event was a SetInterval whose value update_interval accepts.
Accepted(op) == op.op = "update_interval" /\ op.arg.ok /\ op.arg.val > 0

\* C10: an accepted SetInterval keeps position and image and renders
\* nothing; while running unpaused it cancels the pending timer and arms one
\* new timer at the new interval; while paused it stores the interval and
\* arms nothing, and the Resume that follows arms at the stored interval.
C10_SetIntervalKeepsPlayback ==
    [][/\ (Accepted(last_op') /\ Running) =>
            /\ PlaybackKept
            /\ interval' = last_op'.arg.val * 1000
            /\ paused' = paused /\ is_looping' = is_looping /\ Running'
            /\ IF paused
               THEN pending' = {} /\ after_id' = None
               ELSE /\ Cardinality(pending') = 1
                    /\ \A t \in pending' :
                         t.ms = last_op'.arg.val * 1000 /\ t.id = after_id'
                    /\ \A t \in pending' : \A u \in pending : t.id # u.id
       /\ (last_op'.op = "toggle_pause" /\ RunningPaused /\ Accepted(last_op)) =>
            /\ Cardinality(pending') = 1
            /\ \A t \in pending' : t.ms = last_op.arg.val * 1000]_vars

\* A SetInterval that changed the interval of a running, unpaused session.
C10_Witness ==
    /\ RunningActive /\ Accepted(last_op)
    /\ interval # app_interval * 1000
    /\ \E t \in pending : t.ms = interval

\* C11: the interval of a session is never below one second: the interval
\* it starts with and every value a SetInterval leaves, whatever the input,
\* and so the delay of every timer armed.
C11_IntervalAtLeastOneSecond ==
    Started =>
        /\ interval >= 1000
        /\ interval = interval_seconds * 1000
        /\ \A t \in pending : t.ms >= 1000

\* A SetInterval whose value parsed to zero was turned away on a running
\* session.
C11_Witness ==
    /\ RunningActive /\ last_op.op = "update_interval"
    /\ last_op.arg.ok /\ last_op.arg.val = 0
    /\ interval >= 1000 /\ pending # {}

\* The session and the settings it shares, without the record of the event.
SessionState ==
    <<window, image_ok, current_image_index, is_running, paused, is_looping,
      interval, interval_seconds, after_id, pending, tk_last_id, label_image,
      settings>>

\* C12: a SetInterval whose value is not positive or does not parse changes
\* nothing: interval, shared settings, timer and position stay as they are.
C12_RejectedSetIntervalChangesNothing ==
    [][(last_op'.op = "update_interval" /\ ~Accepted(last_op')) =>
         /\ SessionState' = SessionState
         /\ render_req' = NoIndex /\ reads' = {}]_vars

\* An unparsable value was turned away while a timer was pending.
C12_Witness ==
    /\ RunningActive /\ last_op.op = "update_interval" /\ ~last_op.arg.ok
    /\ pending # {} /\ settings.interval_seconds * 1000 = interval

\* C13: ToggleLoop flips looping and leaves position, paused, the interval
\* and the pending timer as they are, and renders nothing; a display step
\* depends on looping only when position = len(entries), where it wraps to
\* entry 0 if looping is true and stops otherwise.
C13_ToggleLoopOnlyFlips ==
    [][/\ (last_op'.op = "toggle_loop" /\ Running) =>
            /\ is_looping' = ~is_looping
            /\ PlaybackKept
            /\ paused' = paused /\ interval' = interval
            /\ pending' = pending /\ after_id' = after_id
            /\ tk_last_id' = tk_last_id /\ Running'
       /\ (last_op'.op \in AdvanceOps /\ Running) =>
            IF AtEnd
            THEN IF is_looping
                 THEN reads' = {0} /\ Running'
                 ELSE Stopped' /\ reads' = {} /\ render_req' = NoIndex
            ELSE reads' = {current_image_index} /\ Running']_vars

\* After some event other than an Advance (such as a ToggleLoop) a display
\* step of a looping session wrapped from the end of the list to entry 0.
C13_Witness ==
    /\ Running /\ last_op.op \in AdvanceOps /\ reads = {0}
    /\ is_looping /\ Len(image_ok) >= 2 /\ current_image_index = 1
    /\ ~only_advance

\* A session whose discovery found no image.
Aborted == Started /\ image_ok = <<>>

\* C17: when no image was collected the slideshow does not start: the window
\* is destroyed, nothing is ever rendered or read, no timer is ever armed and
\* no event follows the construction.
C17_EmptyListNeverStarts ==
    Aborted =>
        /\ window = "destroyed"
        /\ label_image = NoIndex /\ render_req = NoIndex /\ reads = {}
        /\ pending = {} /\ after_id = None /\ tk_last_id = None
        /\ current_image_index = 0
        /\ last_op.op = "start"
        /\ ~ENABLED (Tick \/ Advance \/ Retreat \/ TogglePause \/ SetInterval)

\* The launcher started a looping session on an empty list.
C17_Witness ==
    /\ Aborted /\ settings.is_looping /\ window = "destroyed"

\* C20: a Retreat at position 0 does nothing; at position p >= 1 it sets the
\* position to max(p-2, 0) and performs an Advance there, so a successful
\* render shows entry max(p-2, 0) and leaves position max(p-2, 0) + 1; at
\* p = 1 entry 0 is rendered again and the position stays 1; it never reads
\* the last entry by wrapping backwards, looping or not.
C20_RetreatBoundary ==
    [][(last_op'.op = "show_previous") =>
         IF current_image_index = 0
         THEN /\ SessionState' = SessionState
              /\ render_req' = NoIndex /\ reads' = {}
         ELSE IF Running
         THEN /\ reads' = {RetreatIndex}
              /\ image_ok[RetreatIndex + 1] =>
                   /\ render_req' = RetreatIndex
                   /\ current_image_index' = RetreatIndex + 1
              /\ (current_image_index = 1 /\ image_ok[1]) =>
                   (render_req' = 0 /\ current_image_index' = 1)
         ELSE /\ current_image_index' = RetreatIndex
              /\ render_req' = NoIndex /\ reads' = {}]_vars

\* A looping session of two or more entries took a Retreat at position 1:
\* entry 0 was rendered again, not the last entry.
C20_Witness ==
    /\ Running /\ last_op.op = "show_previous" /\ is_looping
    /\ Len(image_ok) >= 2 /\ render_req = 0 /\ current_image_index = 1

\* ---- discovery
\* The loop over the roots ran to its end.
DiscoveryDone == ~disc.raised /\ disc.next > Len(disc.folder_paths)

\* The directories from a root down to d.
RECURSIVE PathTo(_)
PathTo(d) == IF d \in DOMAIN Parent THEN PathTo(Parent[d]) \o <<d>> ELSE <<d>>

Listable(d) == disc.fs[d].listing = "ok"

\* d is a chosen root or is listed, as a folder, by a listable chain of
\* directories below a chosen root.
Visited(d) ==
    LET p == PathTo(d)
    IN /\ p[1] \in Range(disc.folder_paths)
       /\ \A i \in 2..Len(p) :
             Listable(p[i - 1]) /\ p[i] \in Range(disc.fs[p[i - 1]].folders)

IsLeaf(d) == Listable(d) /\ disc.fs[d].folders = <<>>

FromDir(e, d) == e.dir = d

EntriesOf(d) == LET Test(e) == FromDir(e, d) IN SelectSeq(disc.image_paths, Test)

\* Depth-first, natural order: where the paths to d and e part, d's side has
\* the smaller natural key.
DfsBefore(d, e) ==
    LET p == PathTo(d)
        q == PathTo(e)
    IN \E k \in 1..Len(p) :
          /\ k <= Len(q)
          /\ \A i \in 1..(k - 1) : p[i] = q[i]
          /\ KeyLess(natural_keys(disc.fs[p[k]].name), natural_keys(disc.fs[q[k]].name))

\* C14: when discovery has run to its end, a visited leaf directory has
\* contributed exactly its leaf list, every other directory (one with a
\* subfolder, whatever the subfolders yield) has contributed nothing, and the
\* entries of different leaves stand in depth-first natural order.
C14_LeafOnlyDepthFirst ==
    DiscoveryDone =>
        /\ \A d \in Dirs :
              EntriesOf(d) = IF Visited(d) /\ IsLeaf(d)
                             THEN leaf_images(disc.fs, disc.opts, d) ELSE <<>>
        /\ \A i, j \in 1..Len(disc.image_paths) :
              i < j => \/ disc.image_paths[i].dir = disc.image_paths[j].dir
                       \/ DfsBefore(disc.image_paths[i].dir, disc.image_paths[j].dir)

\* C14 witness: root R holds images of its own and the folders vol10 and
\* vol2, listed in that order; vol10 holds only the folder misc1.  The
\* result is the images of vol2, then those of misc1, then those of root S,
\* and none of R's or vol10's own.
C14_Witness ==
    /\ DiscoveryDone
    /\ disc.fs["R"].files # <<>> /\ disc.fs["A"].files # <<>>
    /\ disc.fs["R"].folders = <<"A", "B">> /\ disc.fs["A"].folders = <<"C">>
    /\ EntriesOf("R") = <<>> /\ EntriesOf("A") = <<>>
    /\ disc.image_paths = EntriesOf("B") \o EntriesOf("C") \o EntriesOf("S")
    /\ EntriesOf("B") # <<>> /\ EntriesOf("C") # <<>> /\ EntriesOf("S") # <<>>

\* The files of the entries a directory contributed, in order.
FilesOf(d) == [i \in 1..Len(EntriesOf(d)) |-> EntriesOf(d)[i].file]

\* The image files of d in natural order.
SortedImages(d) ==
    LET imgs == SelectSeq(disc.fs[d].files, is_image_file)
    IN sorted(imgs, [f \in Range(imgs) |-> natural_keys(f)])

\* The sorted images of d from the first kept one on: all of them, or all
\* but the first when the first-image skip is set.
FirstKept == IF disc.app.skip_first_image THEN 2 ELSE 1

KeptImages(d) ==
    [i \in 1..(Len(SortedImages(d)) - (FirstKept - 1)) |-> SortedImages(d)[i + FirstKept - 1]]

MinOf(a, b) == IF a < b THEN a ELSE b

RuleMatches(d) == disc.app.regex_set /\ RegexMatches(disc.fs[d].name)

\* C15: when discovery has run to its end and the rule matches the name of
\* a visited leaf folder with captured integer n, the files taken from the
\* folder are the first min(n, number kept) of its sorted images counted
\* after the first-image skip: the skipped image does not count against n.
C15_CapAfterSkip ==
    DiscoveryDone =>
        \A d \in Dirs :
            Visited(d) /\ IsLeaf(d) /\ RuleMatches(d) =>
                LET n == IntOfDigits(disc.fs[d].name.digits)
                    kept == KeptImages(d)
                IN FilesOf(d) = [i \in 1..MinOf(n, Len(kept)) |-> kept[i]]

\* C15 witness: folder vol2 lists b1.jpg, A1.PNG, a2.png; with the skip set
\* the two entries taken are a2.png and b1.jpg, the sorted images 1..2.
C15_Witness ==
    /\ DiscoveryDone
    /\ disc.app.regex_set /\ disc.app.skip_first_image
    /\ disc.fs["R"].name = Name("vol", <<2>>, "")
    /\ disc.fs["R"].files = <<F_b1, F_A1, F_a2>>
    /\ FilesOf("R") = <<F_a2, F_b1>>

\* C16: when discovery has run to its end, a visited leaf folder whose name
\* the rule does not match contributes nothing under the stored policy
\* skip_folder, while every other visited leaf contributes its own list, and
\* contributes all its sorted images (less the skipped first) under show_all;
\* with no rule set every visited leaf contributes all its sorted images
\* (less the skipped first) whatever the stored policy.
C16_UnmatchedPolicy ==
    DiscoveryDone =>
        \A d \in Dirs :
            Visited(d) /\ IsLeaf(d) =>
                /\ disc.app.regex_set /\ ~RuleMatches(d)
                        /\ disc.app.handle_unmatched_regex = "skip_folder"
                     => /\ EntriesOf(d) = <<>>
                        /\ \A e \in Dirs \ {d} :
                              Visited(e) /\ IsLeaf(e) =>
                                  EntriesOf(e) = leaf_images(disc.fs, disc.opts, e)
                /\ disc.app.regex_set /\ ~RuleMatches(d)
                        /\ disc.app.handle_unmatched_regex = "show_all"
                     => FilesOf(d) = KeptImages(d)
                /\ ~disc.app.regex_set => FilesOf(d) = KeptImages(d)

\* C16 witness: with the rule set and the stored policy skip_folder, the
\* leaf misc1 holds images and contributes none, while vol2 before it and
\* root set10 after it contribute theirs.
C16_Witness ==
    /\ DiscoveryDone
    /\ disc.app.regex_set /\ disc.app.handle_unmatched_regex = "skip_folder"
    /\ Visited("C") /\ IsLeaf("C") /\ SortedImages("C") # <<>>
    /\ EntriesOf("C") = <<>>
    /\ Visited("B") /\ EntriesOf("B") # <<>>
    /\ disc.folder_paths = <<"R", "S">> /\ disc.fs["S"].folders = <<>>
    /\ SortedImages("S") # <<>>

\* No step of the root loop is left: it ran to its end or an error ended it.
DiscoveryOver == disc.raised \/ disc.next > Len(disc.folder_paths)

\* C19: a directory whose listing fails, with whatever error, is skipped
\* silently: no error leaves the discovery, and when the discovery is over
\* every visited leaf outside the subtree of an unlistable directory has
\* contributed its list and nothing else has contributed anything.
C19_UnlistableSkippedSilently ==
    /\ ~disc.raised
    /\ DiscoveryOver =>
          \A d \in Dirs :
              EntriesOf(d) = IF Visited(d) /\ IsLeaf(d)
                             THEN leaf_images(disc.fs, disc.opts, d) ELSE <<>>

\* ---- operation panel
\* C18: over any sequence of pointer moves and re-placements, deiconify is
\* issued only while Tk holds the panel withdrawn and withdraw only while Tk
\* shows it; a move that repeats the pointer position and geometry of the
\* move before it adds no second transition to that move's; and the flag
\* equals the result of the last call issued.
C18_PanelUpdateIdempotent ==
    /\ \A i \in 1..Len(panel.calls) :
          /\ panel.calls[i] = "deiconify" => panel.state_before = "withdrawn"
          /\ panel.calls[i] = "withdraw" => panel.state_before = "normal"
    /\ Len(panel.calls) <= 1
    /\ panel.same_as_last => Len(panel.prev_calls) + Len(panel.calls) <= 1
    /\ panel.operation_panel_visible = (panel.last_call = "deiconify")
    /\ panel.operation_panel_visible = (panel.state = "normal")

\* C18 witness: the pointer rested in the bottom strip for two moves in a
\* row; the first showed the panel, the second issued no call.
C18_Witness ==
    /\ panel.event = "move" /\ panel.same_as_last
    /\ panel.prev_calls = <<"deiconify">>
    /\ panel.calls = <<>>
    /\ panel.operation_panel_visible

\* ---- timers across state changes
\* C21: an event that begins in Running-Active and changes position or the
\* interval leaves none of the timers queued before it in the queue; if the
\* session is still Running-Active afterwards, the one timer queued is the
\* one the event armed, it is the one whose handle the session holds, and it
\* is set to the full interval now in force.
C21_NoStaleTimer ==
    [][(RunningActive /\ (current_image_index' # current_image_index
                           \/ interval' # interval))
         => /\ pending' \cap pending = {}
            /\ (is_running' /\ window' = "open" /\ ~paused')
                  => /\ Cardinality(pending') = 1
                     /\ \A t \in pending' : t.id = after_id' /\ t.ms = interval'
                     /\ after_id' \notin {t.id : t \in pending}]_vars

\* C21 witness: Start, then a manual Advance onto an entry that does not
\* decode while the timer of Start was queued: position moved from 1 to 2,
\* and the one timer queued is the one that Advance armed.
C21_Witness ==
    /\ RunningActive
    /\ only_advance /\ Len(log) = 2
    /\ last_op.op = "show_next"
    /\ Len(image_ok) >= 2 /\ ~image_ok[2]
    /\ current_image_index = 2
    /\ pending = {[id |-> after_id, ms |-> interval]}

\* ---- bad files under timers alone
\* The last event tried to display entry i and the decode failed.
FailedAt(i) ==
    /\ Running /\ reads = {i} /\ render_req = NoIndex
    /\ i < Len(image_ok) /\ ~image_ok[i + 1]

Positions == 0..(MaxEntries - 1)

\* A decode has just failed in Running-Active and the user is idle.
AfterFailure == user_idle /\ RunningActive /\ \E i \in Positions : FailedAt(i)

\* Indices of the entries that decode: all, those after i, those from the
\* position on.
AnyOk == {j \in 0..(Len(image_ok) - 1) : image_ok[j + 1]}
LaterOk(i) == {j \in AnyOk : j > i}
AheadOk == {j \in AnyOk : j >= current_image_index}
Least(S) == IF S = {} THEN NoIndex ELSE CHOOSE m \in S : \A n \in S : m <= n

\* The next decodable entry in list order after entry i, wrapping when
\* looping; NoIndex when there is none.
NextDecodable(i) ==
    IF LaterOk(i) # {} THEN Least(LaterOk(i))
    ELSE IF is_looping THEN Least(AnyOk) ELSE NoIndex

\* The same, counted from the position playback stands at.
Target ==
    IF AheadOk # {} THEN Least(AheadOk)
    ELSE IF is_looping THEN Least(AnyOk) ELSE NoIndex

\* Right after a failure the entry playback heads for is the next decodable
\* one after the failed entry, and one timer is pending.
HeadsForNext ==
    user_idle /\ RunningActive =>
        /\ Cardinality(pending) = 1
        /\ \A i \in Positions : FailedAt(i) => Target = NextDecodable(i)

\* A timer firing with the user idle: what it renders is the entry playback
\* headed for; it stops playback only when looping is off and no decodable
\* entry remained; and when it renders nothing and does not stop, playback
\* is Running-Active still and heads for the same entry.
TimerKeepsCourse ==
    user_idle /\ RunningActive =>
        /\ render_req' # NoIndex => render_req' = Target
        /\ window' # "open" => Target = NoIndex /\ ~is_looping
        /\ (render_req' = NoIndex /\ window' = "open")
              => /\ is_running' /\ ~paused'
                 /\ Target' = Target

\* C22 as stated: with the user idle, Running-Active always has a timer
\* pending, and after a failed decode playback eventually renders the next
\* decodable entry in list order (wrapping when looping) or, looping being
\* off and no decodable entry remaining, reaches Stopped.
C22_BadFileNeverStalls ==
    /\ []HeadsForNext
    /\ [][TimerKeepsCourse]_vars
    /\ AfterFailure ~> (render_req # NoIndex \/ Stopped)

\* C22, amended: as above whenever some entry decodes or looping is off;
\* when looping is on and no entry decodes, playback neither renders nor
\* stops: every timer leaves it Running-Active with a new timer pending, so
\* it steps through the list for ever.
C22_BadFileSkippedOrCycles ==
    /\ []HeadsForNext
    /\ [][TimerKeepsCourse]_vars
    /\ (AfterFailure /\ (Target # NoIndex \/ ~is_looping))
          ~> (render_req # NoIndex \/ Stopped)

\* C22 witness: Start shows entry 0, a tick fails on entry 1, and with the
\* user idle the next tick shows entry 2.
C22_Witness ==
    /\ user_idle /\ RunningActive
    /\ image_ok = <<TRUE, FALSE, TRUE>>
    /\ only_advance /\ last_op.op = "tick"
    /\ Len(log) = 3 /\ log[2].idx = NoIndex /\ log[3].idx = 2
    /\ render_req = 2

\* ---- the shared settings
InStep(looping, ms) ==
    settings.is_looping = looping /\ settings.interval_seconds * 1000 = ms

\* C23: while a session is running, the shared settings hold that session's
\* loop flag and, in seconds, its interval, whatever the launcher does
\* meanwhile.
C23_SettingsInStep ==
    /\ Running => InStep(is_looping, interval)
    /\ second_session.window = "open"
          => InStep(second_session.is_looping, second_session.interval)

====
